---- MODULE Spec2Model ----
(***************************************************************************)
(* Request pipeline of the Datadog API client: request.go (URI building,   *)
(* error redaction, method dispatch, the retrying executor, the response   *)
(* handler), ratelimit.go and the client configuration (NewClient,         *)
(* SetKeys, Validate).                                                      *)
(*                                                                         *)
(* Text is modelled as a sequence of symbols.  A symbol is either a single *)
(* character (the characters keys are made of, and the characters of the   *)
(* placeholder "redacted") or a fixed piece of text no key of the model    *)
(* occurs in ("Get ", "?api_key=", ...).                                   *)
(***************************************************************************)
EXTENDS Integers, Sequences, FiniteSets, TLC

VARIABLES
    apiKey, appKey, baseUrl,   \* Client.apiKey, Client.appKey, Client.baseUrl
    BackOff,                   \* Client.BackOff: Nil or a policy object (with its own state)
    RetryTimeout,              \* Client.RetryTimeout, in seconds (-1: unset)
    RetryNotify,               \* Client.RetryNotify: Nil or the caller's callback
    pc,                        \* position of the one logical request in flight
    req,                       \* the request being executed (operation, method, url, ctx, out)
    sent,                      \* what HttpClient.Do returned, attempt by attempt, for req,
                               \* each with what the RetryNotify callback was called with
                               \* after it
    resp,                      \* doRequestWithRetries' resp / doRequestWithContext's resp
    err,                       \* RetryNotify's err: the error of the latest operation()
    policy,                    \* what getBackOff() returned for req
    ret,                       \* what the operation returned to its caller: the error, the
                               \* line of the return, the state of the target, what was
                               \* read, the metadata
    unit                       \* a single call of a function (SpecRedact, SpecHandle,
                               \* SpecRate), or two requests at once (SpecConc)

vars == <<apiKey, appKey, baseUrl, BackOff, RetryTimeout, RetryNotify, pc, req, sent,
          resp, err, policy, ret, unit>>

Nil == "nil"                              \* a nil interface (no target, no policy)
NilErr == [type |-> "nil", msg |-> <<>>]  \* the nil error

(***************************************************************************)
(* Bounds of the model.                                                    *)
(***************************************************************************)
MaxMsgLen == 3      \* longest error message given to the Error Redactor alone
MaxKeyLen == 2      \* longest secret given to the Error Redactor alone
MaxRetries == 2     \* largest retry count of a caller-supplied backoff policy
MaxAttempts == 4    \* transport attempts of one request the model tells apart
Tick == 30          \* granularity of time, in seconds: a backoff wait lasts one Tick

(***************************************************************************)
(* Text helpers.                                                           *)
(***************************************************************************)
RECURSIVE SeqsUpTo(_, _)
SeqsUpTo(S, n) ==
    IF n = 0 THEN {<<>>}
    ELSE LET shorter == SeqsUpTo(S, n - 1)
         IN  shorter \cup {Append(s, c) : s \in shorter, c \in S}

HasPrefix(s, p) == Len(p) <= Len(s) /\ SubSeq(s, 1, Len(p)) = p

\* strings.Contains
Contains(s, sub) ==
    \E i \in 0..(Len(s) - Len(sub)) : SubSeq(s, i + 1, i + Len(sub)) = sub

\* strings.Replace(s, old, new, -1): every non-overlapping occurrence, left to
\* right; an empty old matches before every symbol and at the end.
RECURSIVE Replace(_, _, _)
Replace(s, old, new) ==
    IF old = <<>>
    THEN IF s = <<>> THEN new
         ELSE new \o <<Head(s)>> \o Replace(Tail(s), old, new)
    ELSE IF Len(s) < Len(old) THEN s
    ELSE IF HasPrefix(s, old)
         THEN new \o Replace(SubSeq(s, Len(old) + 1, Len(s)), old, new)
         ELSE <<Head(s)>> \o Replace(Tail(s), old, new)

\* the literal "redacted" of redactKeysFromError
Placeholder == <<"r", "e", "d", "a", "c", "t", "e", "d">>

(***************************************************************************)
(* Errors.  An error value is a record: its dynamic type and its message.  *)
(* errors.New makes a value of type errorString.                           *)
(***************************************************************************)
ErrorsNew(msg) == [type |-> "errors.errorString", msg |-> msg]

RedactOne(msg, key) ==
    IF Len(key) > 0 THEN Replace(msg, key, Placeholder) ELSE msg

RECURSIVE RedactAll(_, _)
RedactAll(msg, keys) ==
    IF keys = <<>> THEN msg
    ELSE RedactAll(RedactOne(msg, Head(keys)), Tail(keys))

redactKeysFromError(e, keys) ==
    IF e = NilErr THEN NilErr
    ELSE LET errMessage == RedactAll(e.msg, keys)
         IN  IF errMessage = e.msg THEN e ELSE ErrorsNew(errMessage)

(***************************************************************************)
(* JSON bodies, by shape.  An object body carries the two envelope fields  *)
(* (each absent, a string, or a value of another JSON type) and says       *)
(* whether it has further fields, the payload.  "empty" is the zero-length *)
(* body, "invalid" a body that is not JSON.                                *)
(***************************************************************************)
ObjectBodies ==
    [shape : {"object"}, status : {"absent", "ok", "error", "nonstring"},
     error : {"absent", "boom", "nonstring"}, payload : BOOLEAN]

OtherBodies ==
    {[shape |-> sh, status |-> "absent", error |-> "absent", payload |-> (sh = "array")] :
        sh \in {"empty", "array", "scalar", "null", "invalid"}}

Bodies == ObjectBodies \cup OtherBodies

\* the substitution of request.go:192-194 left out: the body stays zero-length
EmptyBodyKept == [shape |-> "empty", status |-> "absent", error |-> "absent", payload |-> FALSE]

\* the body "{}" handleResponse puts in the place of a zero-length body
EmptyObject == [shape |-> "object", status |-> "absent", error |-> "absent", payload |-> FALSE]

SyntaxError == [type |-> "json.SyntaxError", msg |-> <<"unexpected end of JSON input">>]
UnmarshalTypeError(b) ==
    [type |-> "json.UnmarshalTypeError", msg |-> <<"json: cannot unmarshal ", b.shape>>]

\* the value a string field of StatusResponse gets from a JSON field
StringField(f) == IF f \in {"absent", "nonstring"} THEN "" ELSE f

\* json.Unmarshal(body, &common): the syntax is checked first; a value of the
\* wrong JSON type is skipped, the decoding goes on and the first such mismatch
\* is returned as an UnmarshalTypeError; null is a no-op.
UnmarshalCommon(b) ==
    CASE b.shape \in {"empty", "invalid"} ->
            [err |-> SyntaxError, Status |-> "", Error |-> ""]
      [] b.shape = "null" ->
            [err |-> NilErr, Status |-> "", Error |-> ""]
      [] b.shape \in {"array", "scalar"} ->
            [err |-> UnmarshalTypeError(b), Status |-> "", Error |-> ""]
      [] OTHER ->
            [err |-> IF "nonstring" \in {b.status, b.error}
                     THEN UnmarshalTypeError(b) ELSE NilErr,
             Status |-> StringField(b.status), Error |-> StringField(b.error)]

\* json.Unmarshal(body, &out) for a target of kind out ("object": pointer to a
\* struct, "array": pointer to a slice): what it returns and what the target
\* holds afterwards ("zero": nothing was set, "payload": the body's fields).
UnmarshalOut(b, out) ==
    CASE b.shape \in {"empty", "invalid"} -> [err |-> SyntaxError, out |-> "zero"]
      [] b.shape = "null" -> [err |-> NilErr, out |-> "zero"]
      [] b.shape = out ->
            [err |-> NilErr, out |-> IF b.payload THEN "payload" ELSE "zero"]
      [] OTHER -> [err |-> UnmarshalTypeError(b), out |-> "zero"]

StatusLine(code) ==
    CASE code = 200 -> "200 OK"
      [] code = 301 -> "301 Moved Permanently"
      [] code = 404 -> "404 Not Found"
      [] code = 429 -> "429 Too Many Requests"
      [] code = 503 -> "503 Service Unavailable"
      [] OTHER -> ToString(code)

ReadFail ==
    [shape |-> "readfail", status |-> "absent", error |-> "absent", payload |-> FALSE]
ReadError == [type |-> "io.error", msg |-> <<"unexpected EOF">>]

\* what reading a response's body gives in the pipeline: a body of each shape,
\* an object with or without an error envelope, or a failure of the read
Reads ==
    {b \in Bodies : b.shape # "object" \/ (b.payload /\ b.status \in {"ok", "error"} /\ b.error = "boom")}
    \cup {ReadFail}

\* which envelope decode errors handleResponse lets pass (request.go:204-207)
ToleratedNone(e) == FALSE

Tolerated(e) == e.type = "json.UnmarshalTypeError"

\* the envelope test of request.go:209, mutated to never fire
IsErrorEnvelopeNever(common) == FALSE

IsErrorEnvelope(common) == common.Status = "error"

\* handleResponse(resp, out) when reading resp.Body gives `read` (a body, or
\* ReadFail): the error returned and the state of the caller's target
\* ("untouched": json.Unmarshal was never called on it).
handleResponse(r, read, out) ==
    IF read = ReadFail THEN [err |-> ReadError, out |-> "untouched"]
    ELSE IF r.status < 200 \/ r.status > 299
    THEN [err |-> ErrorsNew(<<"API error ", StatusLine(r.status), ": ", read.shape>>),
          out |-> "untouched"]
    ELSE LET body == IF read.shape = "empty" THEN EmptyObject ELSE read
             common == UnmarshalCommon(body)
         IN  IF common.err # NilErr /\ ~Tolerated(common.err)
             THEN [err |-> common.err, out |-> "untouched"]
             ELSE IF IsErrorEnvelope(common)
             THEN [err |-> ErrorsNew(<<"API returned error: ">> \o
                                     (IF common.Error = "" THEN <<>> ELSE <<common.Error>>)),
                   out |-> "untouched"]
             ELSE IF out = Nil THEN [err |-> NilErr, out |-> "untouched"]
             ELSE UnmarshalOut(body, out)

(***************************************************************************)
(* The rate-limit headers (ratelimit.go).  A header is absent or has a     *)
(* value, a text over HdrChars; header.Get gives "" for an absent header.  *)
(* strconv.ParseInt(s, 10, 64) accepts an optional sign and one or more    *)
(* digits; strconv.ParseFloat(s, 64) accepts an optional sign and digits   *)
(* with at most one point (exponents, hexadecimal, "inf" and "nan" need    *)
(* characters that are not in HdrChars).                                   *)
(***************************************************************************)
MaxHdrLen == 2      \* longest value of a rate-limit header
HdrDigits == {"1", "5"}
HdrChars == HdrDigits \cup {".", "-", "x"}
Absent == [present |-> FALSE, value |-> <<>>]
HdrValues == {Absent} \cup {[present |-> TRUE, value |-> v] : v \in SeqsUpTo(HdrChars, MaxHdrLen)}
HdrKeys == {"X-RateLimit-Limit", "X-RateLimit-Period", "X-RateLimit-Remaining",
            "X-RateLimit-Reset"}

HeaderGet(hdr, key) == IF hdr[key].present THEN hdr[key].value ELSE <<>>

DigitVal(c) == IF c = "1" THEN 1 ELSE 5

RECURSIVE Pow10(_)
Pow10(n) == IF n = 0 THEN 1 ELSE 10 * Pow10(n - 1)

HasSign(s) == s # <<>> /\ Head(s) \in {"-", "+"}
Unsigned(s) == IF HasSign(s) THEN Tail(s) ELSE s
Signed(s, n) == IF HasSign(s) /\ Head(s) = "-" THEN 0 - n ELSE n

\* the digits of s read from the left: [ok, val], ok when s is digits only
RECURSIVE ScanInt(_, _)
ScanInt(s, acc) ==
    IF s = <<>> THEN [ok |-> TRUE, val |-> acc]
    ELSE IF Head(s) \in HdrDigits THEN ScanInt(Tail(s), 10 * acc + DigitVal(Head(s)))
    ELSE [ok |-> FALSE, val |-> 0]

ParseInt(s) ==
    LET u == Unsigned(s)
        r == ScanInt(u, 0)
    IN  IF u = <<>> \/ ~r.ok THEN [err |-> TRUE, val |-> 0]
        ELSE [err |-> FALSE, val |-> Signed(s, r.val)]

\* the mantissa of s read from the left: its digits as an integer, how many
\* of them follow the point, whether a digit and a point were seen
RECURSIVE ScanFloat(_, _, _, _, _)
ScanFloat(s, mant, frac, sawdot, sawdigits) ==
    IF s = <<>> THEN [ok |-> sawdigits, mant |-> mant, frac |-> frac]
    ELSE IF Head(s) \in HdrDigits
         THEN ScanFloat(Tail(s), 10 * mant + DigitVal(Head(s)),
                        IF sawdot THEN frac + 1 ELSE frac, sawdot, TRUE)
    ELSE IF Head(s) = "." /\ ~sawdot THEN ScanFloat(Tail(s), mant, frac, TRUE, sawdigits)
    ELSE [ok |-> FALSE, mant |-> 0, frac |-> 0]

\* the float is mant / 10^frac
ParseFloat(s) ==
    LET r == ScanFloat(Unsigned(s), 0, 0, FALSE, FALSE)
    IN  IF ~r.ok THEN [err |-> TRUE, mant |-> 0, frac |-> 0]
        ELSE [err |-> FALSE, mant |-> Signed(s, r.mant), frac |-> r.frac]

\* intFromHeader returning -1 when the value does not parse
intFromHeaderMinusOne(hdr, key) ==
    LET r == ParseInt(HeaderGet(hdr, key)) IN IF r.err THEN 0 - 1 ELSE r.val

intFromHeader(hdr, key) ==
    LET r == ParseInt(HeaderGet(hdr, key)) IN IF r.err THEN 0 ELSE r.val

\* time.Duration(seconds * 1e9), counted in microseconds (the durations of
\* the model are whole numbers of them)
durationFromHeader(hdr, key) ==
    LET r == ParseFloat(HeaderGet(hdr, key))
    IN  IF r.err THEN 0 ELSE r.mant * Pow10(6 - r.frac)

newRateLimitFromHeaders(hdr) ==
    [Limit |-> intFromHeader(hdr, "X-RateLimit-Limit"),
     Period |-> durationFromHeader(hdr, "X-RateLimit-Period"),
     Remaining |-> intFromHeader(hdr, "X-RateLimit-Remaining"),
     Reset |-> durationFromHeader(hdr, "X-RateLimit-Reset")]

(***************************************************************************)
(* The client and its inputs.                                              *)
(***************************************************************************)
\* (apiKey, appKey) pairs given to NewClient and SetKeys
KeyPairs ==
    { <<(<<"z">>), (<<"w">>)>>, <<(<<>>), (<<"z", "w">>)>>, <<(<<"z", "+">>), (<<"z">>)>> }

DefaultBaseUrl == "https://app.datadoghq.com"
MalformedBaseUrl == ":bad"     \* a base URL url.Parse rejects (no scheme)
BaseUrls == {DefaultBaseUrl, MalformedBaseUrl}

Methods == {"GET", "POST", "PUT", "DELETE"}
Statuses == {200, 301, 404, 429, 503}
Outs == {Nil, "object"}        \* the target `out` of a request: none, or a struct

DefaultMaxElapsedTime == 60    \* seconds

\* Client.BackOff: nil, or a caller-supplied policy object that allows `max`
\* retries after each Reset (numTries is the object's own state).
NoBackOff == [kind |-> "nil", max |-> 0, numTries |-> 0]
CustomBackOff(n) == [kind |-> "custom", max |-> n, numTries |-> 0]

\* the (BackOff, RetryTimeout, RetryNotify) settings a caller gives the client
ClientConfigs ==
    {<<NoBackOff, t, Nil>> : t \in {-1, 0, Tick}}
    \cup {<<CustomBackOff(n), -1, Nil>> : n \in 0..MaxRetries}
    \cup {<<NoBackOff, -1, "callback">>, <<CustomBackOff(MaxRetries), -1, "callback">>}

\* the payload given to a request: none, a value json.Marshal encodes, or a
\* value it rejects (a channel)
Payloads == {Nil, "json", "unsupported"}

\* the headers the transport gives the response to attempt n: the remaining
\* quota is a row of n ones (1, 11, 111, ...), no reset header
HeadersOf(n) ==
    [k \in HdrKeys |->
        CASE k = "X-RateLimit-Limit" -> [present |-> TRUE, value |-> <<"1", "5">>]
          [] k = "X-RateLimit-Period" -> [present |-> TRUE, value |-> <<"5">>]
          [] k = "X-RateLimit-Remaining" -> [present |-> TRUE, value |-> [i \in 1..n |-> "1"]]
          [] OTHER -> Absent]

\* md := ResponseMetadata{}
ZeroMd == [RateLimit |-> [Limit |-> 0, Period |-> 0, Remaining |-> 0, Reset |-> 0]]

\* body: the payload of the request; rd: where the request's body reader
\* (the bytes.Reader of encodeRequestBody) stands, "start" or "eof"
NoReq == [op |-> "none", method |-> "", ctx |-> "background", out |-> Nil, url |-> <<>>,
          body |-> Nil, rd |-> "start"]
NoResp == [status |-> 0, attempt |-> 0, hdr |-> HeadersOf(0)]
NoPolicy == [kind |-> "none", MaxElapsedTime |-> 0, elapsed |-> 0]
\* what an operation returns: the error, the line of the return, whether the
\* error went through redactKeysFromError there, the state of the target, what
\* reading the body gave, the attempt whose response was handled, the metadata
NoRet == [err |-> NilErr, line |-> 0, redacted |-> FALSE, out |-> "untouched",
          read |-> "none", handled |-> 0, md |-> ZeroMd]

\* a return with an error, before any response was handled
Fail(e, line, redacted) ==
    [err |-> e, line |-> line, redacted |-> redacted, out |-> "untouched",
     read |-> "none", handled |-> 0, md |-> ZeroMd]
NoUnit == [fn |-> "none"]

\* url.Values.Encode escapes every key: "+" becomes %2B, letters stay
RECURSIVE QueryEscape(_)
QueryEscape(s) ==
    IF s = <<>> THEN <<>>
    ELSE (IF Head(s) = "+" THEN <<"%2B">> ELSE <<Head(s)>>) \o QueryEscape(Tail(s))

uriForAPI(base, api, k1, k2) ==
    IF base = MalformedBaseUrl
    THEN [url |-> <<>>,
          err |-> [type |-> "url.Error",
                   msg |-> <<"parse ", base, "/api", api, ": missing protocol scheme">>]]
    ELSE [url |-> <<base, "/api", api, "?api_key=">> \o QueryEscape(k1)
                  \o <<"&application_key=">> \o QueryEscape(k2),
          err |-> NilErr]

\* doerForMethod with PUT sent to the retrying executor
doerForMethodPostOnly(method) ==
    IF method = "POST" THEN "HttpClient.Do" ELSE "doRequestWithRetries"

doerForMethod(method) ==
    IF method = "POST" \/ method = "PUT" THEN "HttpClient.Do" ELSE "doRequestWithRetries"

(***************************************************************************)
(* The transport.  HttpClient.Do returns a response or a *url.Error whose  *)
(* message holds the method and the request URL.  With the request's       *)
(* context done it returns the context's error.                            *)
(***************************************************************************)
Verb(method) ==
    CASE method = "GET" -> "Get " [] method = "POST" -> "Post "
      [] method = "PUT" -> "Put " [] OTHER -> "Delete "

TransportError(r, what) ==
    [type |-> "url.Error", msg |-> <<Verb(r.method)>> \o r.url \o <<what>>]

DialError(r) == TransportError(r, ": dial tcp: connection refused")
\* the request announces its body's length and its body reader gives nothing
BodyLengthError(r) == TransportError(r, ": http: ContentLength=N with Body length 0")
CtxError(r) == TransportError(r, ": context deadline exceeded")

DoOutcomes(r) ==
    IF r.ctx = "done" THEN {[err |-> CtxError(r), status |-> 0]}
    ELSE IF r.body # Nil /\ r.rd = "eof" THEN {[err |-> BodyLengthError(r), status |-> 0]}
    ELSE {[err |-> DialError(r), status |-> 0]}
         \cup {[err |-> NilErr, status |-> c] : c \in Statuses}

\* what the request's body reader holds when an attempt starts
Held(r) ==
    IF r.body = Nil THEN "none" ELSE IF r.rd = "eof" THEN "nothing" ELSE "complete"

\* the request after Do: writing the request to the server reads the body
\* reader to its end, and nothing in request.go rewinds it
AfterDo(r, o) == IF r.body # Nil /\ o.err = NilErr THEN [r EXCEPT !.rd = "eof"] ELSE r

\* no call of the RetryNotify callback
NoNotify == [err |-> NilErr, delay |-> 0]

\* the entry of `sent` for an attempt: what Do returned, the callback's call,
\* what the body reader held (b) and whether the response's body was closed
Attempt(o, n, b) ==
    [err |-> o.err, status |-> o.status, notify |-> n, payload |-> b, closed |-> FALSE]

\* `sent` with one more attempt; past MaxAttempts attempts only the latest one
\* is kept, in the last place
Record(s, a) ==
    IF Len(s) < MaxAttempts THEN Append(s, a) ELSE [s EXCEPT ![Len(s)] = a]

\* the response of an attempt, numbered and given the headers of the first
RespOfFirst(o, n) ==
    IF o.err = NilErr THEN [status |-> o.status, attempt |-> 1, hdr |-> HeadersOf(1)]
    ELSE NoResp

\* doRequestWithRetries' `resp` after attempt n returned o
RespOf(o, n) ==
    IF o.err = NilErr THEN [status |-> o.status, attempt |-> n, hdr |-> HeadersOf(n)]
    ELSE NoResp

\* resp.Body.Close() on the response of the latest attempt
Close(s) == [s EXCEPT ![Len(s)].closed = TRUE]

StatusError(code) == ErrorsNew(<<"Received HTTP status code ", ToString(code)>>)

\* the closure `operation` with 4xx answers retried like 5xx
operationErrRetry4xx(o) ==
    CASE o.err # NilErr -> o.err
      [] o.status >= 200 /\ o.status < 300 -> NilErr
      [] OTHER -> StatusError(o.status)

\* the closure `operation` with 3xx answers taken as final
operationErrFinal3xx(o) ==
    CASE o.err # NilErr -> o.err
      [] o.status >= 200 /\ o.status < 400 -> NilErr
      [] o.status >= 400 /\ o.status < 500 -> NilErr
      [] OTHER -> StatusError(o.status)

\* the closure `operation` with 5xx answers taken as final
operationErrFinal5xx(o) ==
    CASE o.err # NilErr -> o.err
      [] o.status >= 200 /\ o.status < 300 -> NilErr
      [] o.status >= 400 -> NilErr
      [] OTHER -> StatusError(o.status)

\* the error the closure `operation` returns for what Do returned
operationErr(o) ==
    CASE o.err # NilErr -> o.err
      [] o.status >= 200 /\ o.status < 300 -> NilErr
      [] o.status >= 400 /\ o.status < 500 -> NilErr
      [] OTHER -> StatusError(o.status)

\* RetryNotify's `err = operation()`, mutated to keep the first error
RetainFirstErr(old, new) == IF old # NilErr /\ new # NilErr THEN old ELSE new

RetainErr(old, new) == new

\* getBackOff with the configured RetryTimeout ignored
getBackOffDefaultOnly(bo, timeout) ==
    IF bo.kind # "nil" THEN [kind |-> "client", MaxElapsedTime |-> 0, elapsed |-> 0]
    ELSE [kind |-> "exp", MaxElapsedTime |-> DefaultMaxElapsedTime, elapsed |-> 0]

\* Client.getBackOff: the caller's policy object itself (kind "client": its
\* state is the variable BackOff), else a new exponential policy
getBackOff(bo, timeout) ==
    IF bo.kind # "nil" THEN [kind |-> "client", MaxElapsedTime |-> 0, elapsed |-> 0]
    ELSE [kind |-> "exp",
          MaxElapsedTime |-> IF timeout # -1 THEN timeout ELSE DefaultMaxElapsedTime,
          elapsed |-> 0]

\* NextBackOff of the caller's policy object
CustomNext(bo) ==
    IF bo.numTries >= bo.max THEN [stop |-> TRUE, bo |-> bo]
    ELSE [stop |-> FALSE, bo |-> [bo EXCEPT !.numTries = @ + 1]]

\* ExponentialBackOff.NextBackOff: Stop once MaxElapsedTime (when not 0) is over
ExpStop(p) == p.MaxElapsedTime # 0 /\ p.elapsed > p.MaxElapsedTime

\* NextBackOff of backoff.WithContext(getBackOff(), req.Context()): Stop when
\* the context is done, else what the wrapped policy says
NextBackOff(ctx, p, bo) ==
    IF ctx = "done" THEN [stop |-> TRUE, bo |-> bo]
    ELSE IF p.kind = "client" THEN CustomNext(bo)
    ELSE [stop |-> ExpStop(p), bo |-> bo]

\* RetryNotify's `if notify != nil { notify(err, next) }`, with the callback
\* given the error before the last one
NotifyStale(cb, old, e, d) == IF cb = Nil THEN NoNotify ELSE [err |-> old, delay |-> d]

\* RetryNotify's `if notify != nil { notify(err, next) }`: what the callback is
\* called with
Notify(cb, old, e, d) == IF cb = Nil THEN NoNotify ELSE [err |-> e, delay |-> d]

\* elapsed times past every MaxElapsedTime of the model are not told apart
ElapsedCap == DefaultMaxElapsedTime + Tick

Advance(p, dt) ==
    IF p.kind = "exp"
    THEN [p EXCEPT !.elapsed = IF @ + dt > ElapsedCap THEN ElapsedCap ELSE @ + dt]
    ELSE p

(***************************************************************************)
(* The pipeline: one logical request at a time on one client.              *)
(***************************************************************************)
\* NewClient(k[1], k[2]) with DATADOG_HOST unset, and no request yet
NewClient(k) ==
    /\ apiKey = k[1]
    /\ appKey = k[2]
    /\ baseUrl = DefaultBaseUrl
    /\ BackOff = NoBackOff
    /\ RetryTimeout = -1
    /\ RetryNotify = Nil
    /\ pc = "idle"
    /\ req = NoReq
    /\ sent = <<>>
    /\ resp = NoResp
    /\ err = NilErr
    /\ policy = NoPolicy
    /\ ret = NoRet

Init == (\E k \in KeyPairs : NewClient(k)) /\ unit = NoUnit

client == <<apiKey, appKey, baseUrl, BackOff, RetryTimeout, RetryNotify>>

SetKeys(k) ==
    /\ pc = "idle"
    /\ apiKey' = k[1]
    /\ appKey' = k[2]
    /\ UNCHANGED <<baseUrl, BackOff, RetryTimeout, RetryNotify, pc, req, sent, resp, err,
                   policy, ret, unit>>

SetBaseUrl(u) ==
    /\ pc = "idle"
    /\ baseUrl' = u
    /\ UNCHANGED <<apiKey, appKey, BackOff, RetryTimeout, RetryNotify, pc, req, sent, resp,
                   err, policy, ret, unit>>

\* the caller assigns the exported fields BackOff, RetryTimeout and RetryNotify
Configure(c) ==
    /\ pc = "idle"
    /\ BackOff' = c[1]
    /\ RetryTimeout' = c[2]
    /\ RetryNotify' = c[3]
    /\ UNCHANGED <<apiKey, appKey, baseUrl, pc, req, sent, resp, err, policy, ret, unit>>

\* the redaction every return of doRequestWithContext after line 91 applies
Redacted(e) == redactKeysFromError(e, <<apiKey, appKey>>)

\* doRequestWithRetries down to the first call of operation(): getBackOff,
\* WithContext, and RetryNotify's b.Reset()
EnterRetries ==
    /\ policy' = getBackOff(BackOff, RetryTimeout)
    /\ BackOff' = [BackOff EXCEPT !.numTries = 0]
    /\ pc' = "operation"

\* json.Marshal's error for a value it cannot encode
MarshalError == [type |-> "json.UnsupportedTypeError", msg |-> <<"json: unsupported type: chan int">>]

\* doRequestWithContext (doJsonRequest passes no context), lines 88-100
DoRequest(m, c, o, b) ==
    /\ pc = "idle"
    /\ LET u == uriForAPI(baseUrl, "/v1/x", apiKey, appKey)
       IN  IF u.err # NilErr
           THEN /\ pc' = "returned"
                /\ ret' = Fail(u.err, 91, FALSE)
                /\ UNCHANGED <<req, policy, BackOff>>
           ELSE IF b = "unsupported"
           THEN /\ pc' = "returned"
                /\ ret' = Fail(Redacted(MarshalError), 95, TRUE)
                /\ UNCHANGED <<req, policy, BackOff>>
           ELSE /\ req' = [op |-> "doRequestWithContext", method |-> m, ctx |-> c,
                           out |-> o, url |-> u.url, body |-> b, rd |-> "start"]
                /\ ret' = ret
                /\ IF doerForMethod(m) = "HttpClient.Do"
                   THEN pc' = "do" /\ UNCHANGED <<policy, BackOff>>
                   ELSE EnterRetries
    /\ UNCHANGED <<apiKey, appKey, baseUrl, RetryTimeout, RetryNotify, sent, resp, err, unit>>

\* Validate, lines 78-91
Validate ==
    /\ pc = "idle"
    /\ LET u == uriForAPI(baseUrl, "/v1/validate", apiKey, appKey)
       IN  IF u.err # NilErr
           THEN /\ pc' = "returned"
                /\ ret' = Fail(u.err, 83, FALSE)
                /\ UNCHANGED <<req, policy, BackOff>>
           ELSE /\ req' = [op |-> "Validate", method |-> "GET", ctx |-> "background",
                           out |-> "object", url |-> u.url, body |-> Nil, rd |-> "start"]
                /\ ret' = ret
                /\ EnterRetries
    /\ UNCHANGED <<apiKey, appKey, baseUrl, RetryTimeout, RetryNotify, sent, resp, err, unit>>

\* the request's context expires while the request is in the executor or the
\* transport
CtxExpire ==
    /\ pc \in {"do", "operation", "backoff"}
    /\ req.ctx = "live"
    /\ req' = [req EXCEPT !.ctx = "done"]
    /\ UNCHANGED <<client, pc, sent, resp, err, policy, ret, unit>>

\* the single attempt of a mutating method: line 100 with HttpClient.Do,
\* then lines 101-103
DoReturns(o) ==
    /\ pc = "do"
    /\ o \in DoOutcomes(req)
    /\ sent' = Record(sent, Attempt(o, NoNotify, Held(req)))
    /\ resp' = RespOf(o, Len(sent'))
    /\ req' = AfterDo(req, o)
    /\ IF o.err # NilErr
       THEN /\ pc' = "returned"
            /\ ret' = Fail(Redacted(o.err), 102, TRUE)
       ELSE /\ pc' = "handle"
            /\ ret' = ret
    /\ UNCHANGED <<client, err, policy, unit>>

\* doRequestWithRetries returns (resp, e) to its caller: doRequestWithContext
\* lines 100-103, Validate lines 91-94.  resp is read after RetryNotify has
\* returned, as the gc compiler orders `return resp, f()`.
ExecutorReturns(e) ==
    IF req.op = "doRequestWithContext"
    THEN IF e # NilErr
         THEN /\ pc' = "returned"
              /\ ret' = Fail(Redacted(e), 102, TRUE)
         ELSE /\ pc' = "handle"
              /\ ret' = ret
    ELSE IF e # NilErr
         THEN /\ pc' = "returned"
              /\ ret' = Fail(e, 93, FALSE)
         ELSE /\ pc' = "validate"
              /\ ret' = ret

\* one round of RetryNotify's loop: operation() (HttpClient.Do takes dt
\* seconds and returns o), then NextBackOff and, when it is not Stop, the
\* callback and the start of the wait (one Tick)
OperationRuns(o, dt) ==
    /\ pc = "operation"
    /\ o \in DoOutcomes(req)
    /\ err' = RetainErr(err, operationErr(o))
    /\ LET p == Advance(policy, dt)
           next == NextBackOff(req.ctx, p, BackOff)
       IN  IF err' = NilErr \/ next.stop
           THEN /\ sent' = Record(sent, Attempt(o, NoNotify, Held(req)))
                /\ ExecutorReturns(err')
                /\ policy' = p
                /\ BackOff' = BackOff
           ELSE /\ sent' = Record(sent, Attempt(o, Notify(RetryNotify, err, err', Tick),
                                                Held(req)))
                /\ pc' = "backoff"
                /\ policy' = p
                /\ BackOff' = next.bo
                /\ ret' = ret
    /\ resp' = RespOf(o, Len(sent'))
    /\ req' = AfterDo(req, o)
    /\ UNCHANGED <<apiKey, appKey, baseUrl, RetryTimeout, RetryNotify, unit>>

\* the backoff timer fires: the wait of RetryNotify's select ends and the next
\* operation() starts
TimerFires ==
    /\ pc = "backoff"
    /\ req.ctx # "done"
    /\ pc' = "operation"
    /\ policy' = Advance(policy, Tick)
    /\ UNCHANGED <<client, req, sent, resp, err, ret, unit>>

\* RetryNotify's select sees the context done during the wait: return err
BackoffCancelled ==
    /\ pc = "backoff"
    /\ req.ctx = "done"
    /\ ExecutorReturns(err)
    /\ UNCHANGED <<client, req, sent, resp, err, policy, unit>>

\* doRequestWithContext lines 104-110; reading the body gives `read`
HandleResponse(read) ==
    /\ pc = "handle"
    /\ LET h == handleResponse(resp, read, req.out)
       IN  ret' = IF h.err # NilErr
                  THEN [err |-> Redacted(h.err), line |-> 107, redacted |-> TRUE,
                        out |-> h.out, read |-> read.shape, handled |-> resp.attempt,
                        md |-> ZeroMd]
                  ELSE [err |-> NilErr, line |-> 110, redacted |-> FALSE, out |-> h.out,
                        read |-> read.shape, handled |-> resp.attempt,
                        md |-> [RateLimit |-> newRateLimitFromHeaders(resp.hdr)]]
    /\ sent' = Close(sent)
    /\ pc' = "returned"
    /\ UNCHANGED <<client, req, resp, err, policy, unit>>

\* Validate lines 96-107
ValidateDecode(read) ==
    /\ pc = "validate"
    /\ LET u == UnmarshalOut(read, "object")
           line == IF read = ReadFail THEN 100 ELSE IF u.err # NilErr THEN 104 ELSE 107
       IN  ret' = [err |-> IF read = ReadFail THEN ReadError ELSE u.err,
                   line |-> line, redacted |-> FALSE,
                   out |-> IF read = ReadFail THEN "untouched" ELSE u.out,
                   read |-> read.shape, handled |-> resp.attempt, md |-> ZeroMd]
    /\ sent' = Close(sent)
    /\ pc' = "returned"
    /\ UNCHANGED <<client, req, resp, err, policy, unit>>

\* the caller has its result; the next request starts from scratch
Consume ==
    /\ pc = "returned"
    /\ pc' = "idle"
    /\ req' = NoReq
    /\ sent' = <<>>
    /\ resp' = NoResp
    /\ err' = NilErr
    /\ policy' = NoPolicy
    /\ ret' = NoRet
    /\ UNCHANGED <<client, unit>>

Next ==
    \/ \E k \in KeyPairs : SetKeys(k)
    \/ \E u \in BaseUrls : SetBaseUrl(u)
    \/ \E c \in ClientConfigs : Configure(c)
    \/ \E m \in Methods, c \in {"background", "live"}, o \in Outs, b \in Payloads :
          DoRequest(m, c, o, b)
    \/ Validate
    \/ CtxExpire
    \/ \E o \in DoOutcomes(req) : DoReturns(o)
    \/ \E o \in DoOutcomes(req), dt \in {0, Tick} : OperationRuns(o, dt)
    \/ TimerFires
    \/ BackoffCancelled
    \/ \E read \in Reads : HandleResponse(read)
    \/ \E read \in Reads : ValidateDecode(read)
    \/ Consume

Spec == Init /\ [][Next]_vars

(***************************************************************************)
(* Retried requests of a client with no policy of its own against a        *)
(* transport that never succeeds: every call of Do ends in a connection    *)
(* failure or a 503, and no context ever expires.  Do returns and the      *)
(* backoff timer fires: both steps are taken whenever they stay possible.  *)
(***************************************************************************)
DefaultConfigs == {c \in ClientConfigs : c[1] = NoBackOff}
FailingOutcomes(r) == {o \in DoOutcomes(r) : o.err # NilErr \/ o.status >= 500}

FailingOperation == \E o \in FailingOutcomes(req), dt \in {0, Tick} : OperationRuns(o, dt)

NextLive ==
    \/ \E c \in DefaultConfigs : Configure(c)
    \/ \E m \in {"GET", "DELETE"}, o \in Outs : DoRequest(m, "background", o, Nil)
    \/ FailingOperation
    \/ TimerFires
    \/ Consume

SpecLive ==
    Init /\ [][NextLive]_vars /\ WF_vars(FailingOperation) /\ WF_vars(TimerFires)

(***************************************************************************)
(* The Error Redactor alone: redactKeysFromError on every error whose      *)
(* message has at most MaxMsgLen characters and on one or two secrets of   *)
(* at most MaxKeyLen characters.                                           *)
(***************************************************************************)
RedactChars == {"e", "d", "z"}

RedactErrs ==
    {NilErr} \cup {[type |-> "custom.Error", msg |-> m] : m \in SeqsUpTo(RedactChars, MaxMsgLen)}

RedactKeys ==
    LET K == SeqsUpTo(RedactChars, MaxKeyLen)
    IN  {<<k>> : k \in K} \cup {<<k1, k2>> : k1 \in K, k2 \in K}

NoKeys == <<(<<>>), (<<>>)>>

InitRedact ==
    /\ NewClient(NoKeys)
    /\ \E e \in RedactErrs, ks \in RedactKeys :
          unit = [fn |-> "redactKeysFromError", err |-> e, keys |-> ks,
                  called |-> FALSE, result |-> NilErr]

RedactCall ==
    /\ unit.fn = "redactKeysFromError"
    /\ ~unit.called
    /\ unit' = [unit EXCEPT !.called = TRUE,
                            !.result = redactKeysFromError(unit.err, unit.keys)]
    /\ UNCHANGED <<client, pc, req, sent, resp, err, policy, ret>>

NextRedact == RedactCall

SpecRedact == InitRedact /\ [][NextRedact]_vars

(***************************************************************************)
(* The Response Handler alone: handleResponse on every status, body and    *)
(* kind of target.                                                         *)
(***************************************************************************)
HandleStatuses == Statuses \cup {204}
HandleOuts == {Nil, "object", "array"}

InitHandle ==
    /\ NewClient(NoKeys)
    /\ \E c \in HandleStatuses, b \in Bodies \cup {ReadFail}, o \in HandleOuts :
          unit = [fn |-> "handleResponse", status |-> c, read |-> b, out |-> o,
                  called |-> FALSE, result |-> [err |-> NilErr, out |-> "untouched"]]

HandleCall ==
    /\ unit.fn = "handleResponse"
    /\ ~unit.called
    /\ unit' = [unit EXCEPT !.called = TRUE,
                !.result = handleResponse([status |-> unit.status, attempt |-> 1],
                                          unit.read, unit.out)]
    /\ UNCHANGED <<client, pc, req, sent, resp, err, policy, ret>>

NextHandle == HandleCall

SpecHandle == InitHandle /\ [][NextHandle]_vars

(***************************************************************************)
(* The extraction of the rate limit alone: lines 109-110 of                *)
(* doRequestWithContext on every set of headers.                           *)
(***************************************************************************)
\* the headers of a handled response, and nothing returned yet
InitRate ==
    /\ NewClient(NoKeys)
    /\ \E a \in HdrValues, b \in HdrValues :
          unit = [fn |-> "newRateLimitFromHeaders",
                  hdr |-> [k \in HdrKeys |->
                              IF k \in {"X-RateLimit-Limit", "X-RateLimit-Reset"}
                              THEN a ELSE b],
                  called |-> FALSE,
                  result |-> [RateLimit |-> newRateLimitFromHeaders([k \in HdrKeys |-> Absent]),
                              err |-> NilErr]]

\* doRequestWithContext lines 109-110, after handleResponse gave no error
RateCall ==
    /\ unit.fn = "newRateLimitFromHeaders"
    /\ ~unit.called
    /\ unit' = [unit EXCEPT !.called = TRUE,
                !.result = [RateLimit |-> newRateLimitFromHeaders(unit.hdr),
                            err |-> NilErr]]
    /\ UNCHANGED <<client, pc, req, sent, resp, err, policy, ret>>

NextRate == RateCall

SpecRate == InitRate /\ [][NextRate]_vars

(***************************************************************************)
(* Two logical requests at the same time on one client, both in the        *)
(* retrying executor.  Each has its own position, attempts and, under the  *)
(* default policy, its own policy object; the caller's policy object       *)
(* Client.BackOff is the one object getBackOff gives to both (bo).  The    *)
(* steps of the two requests interleave; each step is taken as atomic      *)
(* (the accesses to the shared object are not synchronised in the code).   *)
(***************************************************************************)
Requests == {1, 2}
ConcConfigs ==
    {<<NoBackOff, t>> : t \in {-1, Tick}} \cup {<<CustomBackOff(n), -1>> : n \in 0..MaxRetries}
ConcOutcomes == {[err |-> NilErr, status |-> c] : c \in {200, 503}}
NotStarted == [pc |-> "idle", attempts |-> 0, err |-> NilErr, policy |-> NoPolicy]

InitConc ==
    /\ NewClient(NoKeys)
    /\ \E c \in ConcConfigs :
          unit = [fn |-> "doRequestWithRetries", bo |-> c[1], timeout |-> c[2],
                  r |-> [i \in Requests |-> NotStarted]]

\* request i enters doRequestWithRetries: getBackOff, then RetryNotify's Reset
\* of the policy it was given
ConcEnter(i) ==
    /\ unit.fn = "doRequestWithRetries"
    /\ unit.r[i].pc = "idle"
    /\ unit' = [unit EXCEPT !.r[i].pc = "operation",
                            !.r[i].policy = getBackOff(unit.bo, unit.timeout),
                            !.bo.numTries = 0]
    /\ UNCHANGED <<client, pc, req, sent, resp, err, policy, ret>>

\* one round of RetryNotify's loop for request i
ConcOperation(i, o, dt) ==
    /\ unit.fn = "doRequestWithRetries"
    /\ unit.r[i].pc = "operation"
    /\ LET e == operationErr(o)
           p == Advance(unit.r[i].policy, dt)
           next == NextBackOff("live", p, unit.bo)
           n == IF unit.r[i].attempts < MaxAttempts THEN unit.r[i].attempts + 1
                ELSE MaxAttempts
       IN  unit' = [unit EXCEPT
                       !.r[i] = [pc |-> IF e = NilErr \/ next.stop THEN "returned"
                                        ELSE "backoff",
                                 attempts |-> n, err |-> e, policy |-> p],
                       !.bo = IF e = NilErr \/ next.stop THEN unit.bo ELSE next.bo]
    /\ UNCHANGED <<client, pc, req, sent, resp, err, policy, ret>>

\* the backoff timer of request i fires
ConcTimerFires(i) ==
    /\ unit.fn = "doRequestWithRetries"
    /\ unit.r[i].pc = "backoff"
    /\ unit' = [unit EXCEPT !.r[i].pc = "operation",
                            !.r[i].policy = Advance(@, Tick)]
    /\ UNCHANGED <<client, pc, req, sent, resp, err, policy, ret>>

NextConc ==
    \/ \E i \in Requests : ConcEnter(i)
    \/ \E i \in Requests, o \in ConcOutcomes, dt \in {0, Tick} : ConcOperation(i, o, dt)
    \/ \E i \in Requests : ConcTimerFires(i)

SpecConc == InitConc /\ [][NextConc]_vars

(***************************************************************************)
(* Vocabulary of the properties.                                           *)
(***************************************************************************)
Mutating == {"POST", "PUT"}
InFlight == req.op # "none"
\* the request went through doRequestWithRetries and that call has returned
ExecutorDone ==
    /\ InFlight
    /\ req.method \notin Mutating
    /\ pc \in {"handle", "validate", "returned"}
Is2xx(o) == o.err = NilErr /\ o.status >= 200 /\ o.status < 300
Is4xx(o) == o.err = NilErr /\ o.status >= 400 /\ o.status < 500
Retryable(o) == ~Is2xx(o) /\ ~Is4xx(o)
AllAnswered(code) ==
    sent # <<>> /\ \A i \in 1..Len(sent) : sent[i].err = NilErr /\ sent[i].status = code
\* the error of one attempt: the transport's, or the one naming the status
AttemptError(o) == IF o.err # NilErr THEN o.err ELSE StatusError(o.status)
\* the policy in use has no retry left
Exhausted ==
    IF policy.kind = "client" THEN BackOff.numTries >= BackOff.max ELSE ExpStop(policy)
\* the error is the context's (the transport wraps it in a *url.Error)
IsCancellation(e) == Contains(e.msg, <<": context deadline exceeded">>)
Leaks(e) ==
    \E k \in {apiKey, appKey} : k # <<>> /\ Contains(e.msg, k)

(***************************************************************************)
(* C1: a request with a mutating method (POST or PUT) never enters the     *)
(* retrying executor and, once its single transport call has returned, has *)
(* made exactly one attempt whatever that attempt's outcome; a request     *)
(* that was sent more than once has a method other than POST and PUT.      *)
(***************************************************************************)
C1_MutatingSentOnce ==
    /\ (InFlight /\ req.method \in Mutating) =>
          /\ pc \notin {"operation", "backoff", "validate"}
          /\ Len(sent) <= 1
          /\ (pc \in {"handle", "returned"} => Len(sent) = 1)
    /\ (Len(sent) > 1 => req.method \notin Mutating)

C1_Witness ==
    /\ pc = "returned" /\ req.method = "PUT" /\ Len(sent) = 1
    /\ sent[1].status = 503 /\ ret.line = 107

(***************************************************************************)
(* C2, as stated: when every attempt of a request in the retrying executor *)
(* is answered 429 and the caller's policy allows N retries, the executor  *)
(* has made exactly N+1 attempts when it returns.                          *)
(***************************************************************************)
C2_Original ==
    (ExecutorDone /\ policy.kind = "client" /\ AllAnswered(429)) =>
        Len(sent) = BackOff.max + 1

(***************************************************************************)
(* C2, amended: a 429 answer ends the executor after exactly one attempt   *)
(* whatever the policy allows; it is when every attempt is answered 503    *)
(* (a status outside [200,300) and [400,500)) and the request's context    *)
(* does not expire that the executor makes exactly N+1 attempts under a    *)
(* policy that allows N retries and then returns the failure.              *)
(***************************************************************************)
C2_Amended ==
    (ExecutorDone /\ policy.kind = "client") =>
        /\ AllAnswered(429) => Len(sent) = 1
        /\ (AllAnswered(503) /\ req.ctx # "done") =>
              /\ Len(sent) = BackOff.max + 1
              /\ pc = "returned"
              /\ ret.err # NilErr

C2_Witness ==
    /\ ExecutorDone /\ policy.kind = "client" /\ BackOff.max = MaxRetries
    /\ AllAnswered(503) /\ req.ctx # "done" /\ Len(sent) = MaxRetries + 1
    /\ pc = "returned"

(***************************************************************************)
(* C3, as stated: a 4xx answer (404, 429) ends the attempts of its request *)
(* (given to the first attempt, it is the only one), is followed by no     *)
(* wait and no retry, and the request returns to its caller an error that  *)
(* carries the status line.                                                *)
(***************************************************************************)
C3_Original ==
    \A i \in 1..Len(sent) : Is4xx(sent[i]) =>
        /\ i = Len(sent)
        /\ pc \in {"handle", "validate", "returned"}
        /\ pc = "returned" =>
              /\ ret.err # NilErr
              /\ Contains(ret.err.msg, <<StatusLine(sent[i].status)>>)

(***************************************************************************)
(* C3, amended: a 4xx answer given to a first attempt is the only attempt  *)
(* of its request, and no 4xx answer is followed by a wait or a retry,     *)
(* however many retries the policy allows.  A request made through         *)
(* doRequestWithContext then returns an error from the Response Handler:   *)
(* the one carrying the status line when the body could be read, the read  *)
(* error otherwise.  (Validate does not look at the status: it reports     *)
(* only a failure to read or decode the body.)                             *)
(***************************************************************************)
C3_Amended ==
    \A i \in 1..Len(sent) : Is4xx(sent[i]) =>
        /\ i = Len(sent)
        /\ pc \in {"handle", "validate", "returned"}
        /\ (pc = "returned" /\ req.op = "doRequestWithContext") =>
              /\ ret.line = 107
              /\ ret.out = "untouched"
              /\ ret.err # NilErr
              /\ IF ret.read = "readfail"
                 THEN ret.err = ReadError
                 ELSE Contains(ret.err.msg, <<"API error ", StatusLine(sent[i].status)>>)

C3_Witness ==
    /\ pc = "returned" /\ req.method = "GET" /\ req.op = "doRequestWithContext"
    /\ policy.kind = "client" /\ BackOff.max = MaxRetries
    /\ Len(sent) = 1 /\ sent[1].status = 404
    /\ Contains(ret.err.msg, <<"404 Not Found">>)

(***************************************************************************)
(* C4: no error returned to a caller by doRequestWithContext (doJsonRequest*)
(* included) or Validate contains the API key or the application key that  *)
(* the request's URL carries.                                              *)
(***************************************************************************)
C4_NoKeyInError ==
    (pc = "returned" /\ ret.err # NilErr) => ~Leaks(ret.err)

(***************************************************************************)
(* C5: redactKeysFromError, for every error and secrets: if a secret       *)
(* occurs in the error's message the returned error's message contains no  *)
(* secret; if none occurs the returned error is the error passed in.       *)
(***************************************************************************)
C5_RedactorRemovesSecrets ==
    (unit.fn = "redactKeysFromError" /\ unit.called /\ unit.err # NilErr) =>
        LET secrets == {unit.keys[i] : i \in 1..Len(unit.keys)} \ {<<>>}
            occurs == \E k \in secrets : Contains(unit.err.msg, k)
        IN  /\ occurs => \A k \in secrets : ~Contains(unit.result.msg, k)
            /\ ~occurs => unit.result = unit.err

(***************************************************************************)
(* C6, as stated: the executor's attempts end only on a 2xx answer, a 4xx  *)
(* answer or the exhaustion of the policy: no attempt follows a 2xx or 4xx *)
(* answer, and when the executor has returned after an attempt that ended  *)
(* in a transport failure or another status, the policy had no retry left. *)
(***************************************************************************)
C6_Original ==
    /\ \A i \in 1..Len(sent) : (Is2xx(sent[i]) \/ Is4xx(sent[i])) => i = Len(sent)
    /\ (ExecutorDone /\ sent # <<>> /\ Retryable(sent[Len(sent)])) => Exhausted

(***************************************************************************)
(* C6, amended: the executor's attempts end only on a 2xx answer, a 4xx    *)
(* answer, the exhaustion of the policy or the end of the request's        *)
(* context.                                                                *)
(***************************************************************************)
C6_Amended ==
    /\ \A i \in 1..Len(sent) : (Is2xx(sent[i]) \/ Is4xx(sent[i])) => i = Len(sent)
    /\ (ExecutorDone /\ sent # <<>> /\ Retryable(sent[Len(sent)])) =>
          (Exhausted \/ req.ctx = "done")

C6_Witness ==
    /\ ExecutorDone /\ policy.kind = "client" /\ BackOff.max = MaxRetries
    /\ Len(sent) = MaxRetries + 1 /\ req.ctx # "done"
    /\ sent[1].status = 301 /\ sent[Len(sent)].status = 301

(***************************************************************************)
(* C7: when the executor returns an error (the policy is exhausted), that  *)
(* error is the error of the last attempt made: its transport error, or    *)
(* the error naming its status; the caller of doRequestWithContext gets it *)
(* redacted, the caller of Validate as it is.                              *)
(***************************************************************************)
C7_LastErrorReturned ==
    (ExecutorDone /\ sent # <<>> /\ Retryable(sent[Len(sent)])) =>
        /\ err = AttemptError(sent[Len(sent)])
        /\ pc = "returned"
        /\ ret.err = IF req.op = "Validate" THEN err ELSE Redacted(err)

C7_Witness ==
    /\ ExecutorDone /\ policy.kind = "client" /\ Exhausted /\ req.ctx # "done"
    /\ Len(sent) = 3
    /\ sent[1].err # NilErr /\ sent[2].status = 301 /\ sent[3].status = 503
    /\ ret.err = StatusError(503)

(***************************************************************************)
(* C8: a request that returns after its context has expired, during the    *)
(* network call or during the backoff wait, returns a cancellation error.  *)
(***************************************************************************)
C8_CancellationSurfaced ==
    (pc = "returned" /\ req.ctx = "done") => IsCancellation(ret.err)

(***************************************************************************)
(* C9: for a 2xx response whose body is a JSON object with status "error", *)
(* handleResponse fails with the error "API returned error: " followed by  *)
(* the envelope's error string and never decodes into the target, with or  *)
(* without a target.                                                       *)
(***************************************************************************)
C9_ErrorEnvelopeFails ==
    (/\ unit.fn = "handleResponse" /\ unit.called
     /\ unit.status >= 200 /\ unit.status < 300
     /\ unit.read.shape = "object" /\ unit.read.status = "error") =>
        /\ unit.result.err.type = "errors.errorString"
        /\ unit.result.err.msg =
              <<"API returned error: ">> \o
              (IF unit.read.error = "boom" THEN <<"boom">> ELSE <<>>)
        /\ unit.result.out = "untouched"

C9_Witness ==
    /\ unit.fn = "handleResponse" /\ unit.called /\ unit.status = 200
    /\ unit.read.shape = "object" /\ unit.read.status = "error"
    /\ unit.read.error = "boom" /\ unit.read.payload /\ unit.out = "object"
    /\ Contains(unit.result.err.msg, <<"boom">>)

\* what steps 6 and 7 of the handler give for a body: success with no payload
\* without a target, else the decoding into the target
DecodeOnly(b, out) ==
    IF out = Nil THEN [err |-> NilErr, out |-> "untouched"] ELSE UnmarshalOut(b, out)

HandledOk == unit.fn = "handleResponse" /\ unit.called /\ unit.read # ReadFail
             /\ unit.status >= 200 /\ unit.status < 300

(***************************************************************************)
(* C10, as stated: at the envelope step only the mismatch of an array body *)
(* is tolerated: for an array body the handler's outcome is the outcome of *)
(* decoding the body into the target; every other body whose decoding into *)
(* the envelope gives an error makes the handler fail, target or not.      *)
(***************************************************************************)
C10_Original ==
    HandledOk =>
       LET body == IF unit.read.shape = "empty" THEN EmptyObject ELSE unit.read
       IN  /\ body.shape = "array" => unit.result = DecodeOnly(body, unit.out)
           /\ (body.shape # "array" /\ UnmarshalCommon(body).err # NilErr) =>
                 unit.result.err # NilErr

(***************************************************************************)
(* C10, amended: at the envelope step every structural type mismatch       *)
(* (json.UnmarshalTypeError) is tolerated: an array body, a scalar body,   *)
(* and an object whose status or error field is not a string.  For an      *)
(* array or scalar body the handler's outcome is the outcome of decoding   *)
(* the body into the target (success with no payload without a target);    *)
(* for an object with a mistyped envelope field it is that outcome too     *)
(* unless its status is the string "error"; every other envelope decode    *)
(* error (a syntax error) is returned by the handler, target or not.       *)
(***************************************************************************)
C10_Amended ==
    HandledOk =>
       LET body == IF unit.read.shape = "empty" THEN EmptyObject ELSE unit.read
           mistyped == body.shape = "object" /\ "nonstring" \in {body.status, body.error}
       IN  /\ body.shape \in {"array", "scalar"} => unit.result = DecodeOnly(body, unit.out)
           /\ (mistyped /\ body.status # "error") => unit.result = DecodeOnly(body, unit.out)
           /\ body.shape = "invalid" =>
                 unit.result = [err |-> SyntaxError, out |-> "untouched"]

C10_Witness ==
    /\ HandledOk /\ unit.read.shape = "array" /\ unit.out = "object"
    /\ unit.result.err.type = "json.UnmarshalTypeError" /\ unit.result.out = "zero"

\* a 2xx response whose body was read and has length zero
HandledEmpty == HandledOk /\ unit.read.shape = "empty"

(***************************************************************************)
(* C11, as stated: for every 2xx response with an empty body the handler   *)
(* returns no error and leaves the caller's target zero-valued (with no    *)
(* target it returns success and touches nothing).                         *)
(***************************************************************************)
C11_Original ==
    HandledEmpty =>
        /\ unit.result.err = NilErr
        /\ unit.result.out = IF unit.out = Nil THEN "untouched" ELSE "zero"

(***************************************************************************)
(* C11, amended: for every 2xx response with an empty body the handler     *)
(* decodes "{}" in the body's place: with no target it returns success and *)
(* touches nothing, with a struct target it returns no error and leaves    *)
(* the target zero-valued, and with a slice target, which no JSON object   *)
(* decodes into, it returns the decoder's type-mismatch error and leaves   *)
(* the target zero-valued.                                                 *)
(***************************************************************************)
C11_Amended ==
    HandledEmpty =>
        /\ unit.out = Nil => unit.result = [err |-> NilErr, out |-> "untouched"]
        /\ unit.out = "object" => unit.result = [err |-> NilErr, out |-> "zero"]
        /\ unit.out = "array" =>
              /\ unit.result.err.type = "json.UnmarshalTypeError"
              /\ unit.result.out = "zero"

C11_Witness ==
    /\ HandledEmpty /\ unit.status = 200 /\ unit.out = "object"
    /\ unit.result = [err |-> NilErr, out |-> "zero"]

(***************************************************************************)
(* C12: the policy a request in the executor runs under is the caller's    *)
(* policy object itself when the client has one; otherwise it is an        *)
(* exponential policy whose maximum elapsed time is the client's retry     *)
(* timeout when that was set, and 60 seconds when it holds the unset       *)
(* sentinel -1.                                                            *)
(***************************************************************************)
C12_PolicySelection ==
    policy.kind # "none" =>
        IF BackOff.kind # "nil"
        THEN policy.kind = "client"
        ELSE /\ policy.kind = "exp"
             /\ RetryTimeout # -1 => policy.MaxElapsedTime = RetryTimeout
             /\ RetryTimeout = -1 => policy.MaxElapsedTime = DefaultMaxElapsedTime

C12_Witness ==
    /\ pc = "backoff" /\ BackOff.kind = "nil" /\ RetryTimeout = Tick
    /\ policy.kind = "exp" /\ policy.MaxElapsedTime = Tick

\* a retry follows attempt i: a later attempt was made, or the executor is
\* waiting for, or making, the next one
RetryFollows(i) == i < Len(sent) \/ (i = Len(sent) /\ pc \in {"backoff", "operation"})

\* the executor returned because the request's context ended during the wait
\* that followed the last attempt (an attempt made with the context live)
WaitCut ==
    /\ ExecutorDone /\ req.ctx = "done" /\ sent # <<>>
    /\ Retryable(sent[Len(sent)]) /\ sent[Len(sent)].err # CtxError(req)

\* with a callback and a caller policy of N retries, every attempt failing in
\* a retryable way and the context live, the executor makes N+1 attempts and
\* returns the error of the last one, as it does with no callback
FlowUnchanged ==
    (/\ RetryNotify # Nil /\ ExecutorDone /\ policy.kind = "client"
     /\ req.ctx # "done" /\ sent # <<>>
     /\ \A i \in 1..Len(sent) : Retryable(sent[i])) =>
        /\ Len(sent) = BackOff.max + 1
        /\ err = AttemptError(sent[Len(sent)])

(***************************************************************************)
(* C13, as stated: the RetryNotify callback is called exactly once per     *)
(* retry: after each attempt a retry follows (so before each attempt after *)
(* the first) and never after the final attempt; it is given the error of  *)
(* the attempt that caused the retry and the delay of the wait that        *)
(* follows.  The callback does not change the flow of the executor.        *)
(***************************************************************************)
C13_Original ==
    /\ \A i \in 1..Len(sent) :
          IF RetryNotify # Nil /\ RetryFollows(i)
          THEN sent[i].notify = [err |-> AttemptError(sent[i]), delay |-> Tick]
          ELSE sent[i].notify = NoNotify
    /\ FlowUnchanged

(***************************************************************************)
(* C13, amended: the RetryNotify callback is called once at the start of   *)
(* each backoff wait, with the error of the attempt just made and the      *)
(* delay of the wait: so exactly once before each attempt after the first  *)
(* and never before the first.  After the final attempt it is not called,  *)
(* except when the request's context ends during the wait: the callback    *)
(* was then called for a retry that is never made.  With no callback       *)
(* nothing is called.  The callback does not change the flow of the        *)
(* executor.                                                               *)
(***************************************************************************)
C13_Amended ==
    /\ \A i \in 1..Len(sent) :
          IF RetryNotify # Nil /\ (RetryFollows(i) \/ (i = Len(sent) /\ WaitCut))
          THEN sent[i].notify = [err |-> AttemptError(sent[i]), delay |-> Tick]
          ELSE sent[i].notify = NoNotify
    /\ FlowUnchanged

C13_Witness ==
    /\ RetryNotify # Nil /\ ExecutorDone /\ pc = "handle" /\ Len(sent) = 3
    /\ sent[1].notify = [err |-> DialError(req), delay |-> Tick]
    /\ sent[2].notify = [err |-> StatusError(503), delay |-> Tick]
    /\ sent[3].notify = NoNotify /\ sent[3].status = 200

\* the text is a decimal number: an optional sign, then digits with at most
\* one point among them
IsNumber(s) ==
    LET u == Unsigned(s)
    IN  /\ \E i \in 1..Len(u) : u[i] \in HdrDigits
        /\ \A i \in 1..Len(u) : u[i] \in HdrDigits \cup {"."}
        /\ Cardinality({i \in 1..Len(u) : u[i] = "."}) <= 1
NonNumeric(h) == ~h.present \/ ~IsNumber(h.value)

\* the field of the RateLimit a header fills
FieldOf(rl, key) ==
    CASE key = "X-RateLimit-Limit" -> rl.Limit
      [] key = "X-RateLimit-Period" -> rl.Period
      [] key = "X-RateLimit-Remaining" -> rl.Remaining
      [] OTHER -> rl.Reset

ReturnedError ==
    pc = "returned" /\ ret.err # NilErr /\ ret.line \in {91, 95, 102, 107}

(***************************************************************************)
(* C15: every error doRequestWithContext returns went through the Error    *)
(* Redactor at the return that gives it to the caller: the errors of the   *)
(* build of the request (a malformed base URL, a payload that cannot be    *)
(* encoded) as well as the transport's and the Response Handler's.         *)
(***************************************************************************)
C15_EveryErrorRedacted ==
    ReturnedError => ret.redacted

\* request i of the two has returned after a failed attempt: its policy said
\* Stop
ConcGaveUp(i) ==
    unit.fn = "doRequestWithRetries" /\ unit.r[i].pc = "returned" /\ unit.r[i].err # NilErr

(***************************************************************************)
(* C16: two requests in the executor at the same time on one client are    *)
(* independent: whatever the interleaving, a request whose attempts all    *)
(* fail gives up where it would alone: after N+1 attempts under a caller   *)
(* policy of N retries, and under the default policy when its own elapsed  *)
(* time is over the maximum.                                               *)
(***************************************************************************)
C16_Independent ==
    \A i \in Requests : ConcGaveUp(i) =>
        IF unit.bo.kind # "nil"
        THEN unit.r[i].attempts = unit.bo.max + 1
        ELSE ExpStop(unit.r[i].policy)

(***************************************************************************)
(* C17: with no caller-supplied policy and a retry timeout that is unset,  *)
(* zero or positive, a request in the executor whose every attempt fails   *)
(* (connection failure or 5xx) eventually returns an error to its caller:  *)
(* it does not retry forever.                                              *)
(***************************************************************************)
C17_EventuallyGivesUp ==
    (pc = "operation" /\ BackOff.kind = "nil") ~> (pc = "returned" /\ ret.err # NilErr)

\* a request of doRequestWithContext left the executor with a 2xx answer
\* after at least one retry
SucceededAfterRetries ==
    /\ ExecutorDone /\ req.op = "doRequestWithContext"
    /\ Len(sent) > 1 /\ Is2xx(sent[Len(sent)])

(***************************************************************************)
(* C18: when a request succeeds after one or more retries, the response    *)
(* given to the Response Handler is the response of the last attempt, the  *)
(* successful one, and the rate limit returned to the caller is the one in *)
(* that response's headers, not the one of an earlier, failed attempt.     *)
(***************************************************************************)
C18_FinalResponseHandled ==
    SucceededAfterRetries =>
        /\ resp.attempt = Len(sent)
        /\ resp.status = sent[Len(sent)].status
        /\ pc = "returned" => ret.handled = Len(sent)
        /\ (pc = "returned" /\ ret.err = NilErr) =>
              /\ ret.md.RateLimit = newRateLimitFromHeaders(HeadersOf(Len(sent)))
              /\ \A i \in 1..(Len(sent) - 1) :
                    ret.md.RateLimit # newRateLimitFromHeaders(HeadersOf(i))

C18_Witness ==
    /\ SucceededAfterRetries /\ pc = "returned" /\ ret.line = 110
    /\ Len(sent) = 3 /\ sent[1].status = 503 /\ sent[2].status = 503
    /\ ret.handled = 3 /\ ret.md.RateLimit.Remaining = 111

(***************************************************************************)
(* C19: the encoded body of a request can be used again when the request   *)
(* is retried: for a request built with a payload, the body reader holds   *)
(* the complete JSON body at the start of every attempt, so that every     *)
(* attempt sends the body the first attempt sent.                          *)
(***************************************************************************)
C19_BodyReusable ==
    (InFlight /\ req.body # Nil) =>
        \A i \in 1..Len(sent) : sent[i].payload = "complete"

(***************************************************************************)
(* C20: when an operation has returned, the body of every response the    *)
(* transport gave it, the responses of retried attempts and of the last    *)
(* attempt of an exhausted policy included, has been closed.               *)
(***************************************************************************)
C20_EveryBodyClosed ==
    pc = "returned" =>
        \A i \in 1..Len(sent) : sent[i].err = NilErr => sent[i].closed

====
